---- MODULE Spec2Model ----
(***************************************************************************)
(* Model of package unreader (src/unreader.go): a reader that records the  *)
(* bytes it fetches from an io.Reader in a circular buffer and lets the    *)
(* consumer rewind (Unread) and replay them.                               *)
(*                                                                         *)
(* Bytes are the integers 0..255.  Go slices are sequences; the Go slice   *)
(* expression b[lo:hi] is SubSeq(b, lo + 1, hi).  int64 arithmetic is      *)
(* two's complement of IntBits bits (Wrap): the width is scaled down so    *)
(* that the wrap-around of cursor - c and bytesRead - newCursor is within  *)
(* reach of the checker; every length of the model stays far below MaxInt. *)
(***************************************************************************)
EXTENDS Integers, Sequences, FiniteSets, TLC

VARIABLES
    size,       \* circbuf.Buffer: capacity, fixed by NewUnreader
    cbBytes,    \* circbuf.Buffer: retained window, oldest first
    cbWritten,  \* circbuf.Buffer: total bytes ever written
    cbSpare,    \* circbuf.Buffer: what lies behind the window in Bytes()
    src,        \* io.Reader: the bytes the source will produce, in order
    srcPos,     \* io.Reader: how many of them it has produced
    bytesRead,  \* unreader.bytesRead
    cursor,     \* unreader.cursor
    runeBuf,    \* unreader.runeBuf (the prefix ReadRune can touch)
    runePos,    \* unreader.runePos
    panicked,   \* a run-time panic (slice bounds out of range) has occurred
    last,       \* the last call, what it returned, and the call before it
    noUnread,   \* no Unread has been called so far
    observed    \* while noUnread: the bytes the Reads have returned

vars == <<size, cbBytes, cbWritten, cbSpare, src, srcPos, bytesRead, cursor,
          runeBuf, runePos, panicked, last, noUnread, observed>>

----------------------------------------------------------------------------
(* Bounds of the model *)

IntBits == 5        \* width of the scaled-down int64
MaxCap == 2         \* capacities 1..MaxCap
MaxSpan == 2        \* Read is called with spans of length 0..MaxSpan
MaxUnread == 3      \* Unread is called with -MaxAhead..MaxUnread, MaxInt, MinInt
MaxAhead == 1        \* how far Unread of a negative count is followed
MaxLast == 2        \* LastBytes is called with 0..MaxLast
ScratchLen == 5     \* modelled prefix of runeBuf
MaxRuneUnread == 4  \* as a rune reader: Unread is called with 0..MaxRuneUnread


MaxInt == 2^(IntBits - 1) - 1
MinInt == -(2^(IntBits - 1))

\* int64 wrap-around (two's complement)
Wrap(x) == ((x - MinInt) % (2^IntBits)) + MinInt

Min(a, b) == IF a < b THEN a ELSE b

\* Go: s[lo:hi]
Slice(s, lo, hi) == SubSeq(s, lo + 1, hi)

----------------------------------------------------------------------------
(* The inputs the model runs the reader on *)

Capacities == 1..MaxCap

\* What the source holds when the reader is driven by all its operations:
\* nothing, "ABC" (65 66 67), or U+00E9 (195 169)
Sources == { <<>>, <<65, 66, 67>>, <<195, 169>> }

\* What the source holds when the reader is driven as a rune reader:
\* 195 169 is U+00E9; 226 130 172 is U+20AC; 240 159 152 128 is U+1F600;
\* 226 65 is a broken encoding (a lead byte of a three-byte encoding, then
\* 'A'); 128 is a stray continuation byte; 226 130 is a truncated encoding
RuneSources ==
    { <<65, 66>>,
      <<195, 169, 65>>,
      <<226, 130, 172, 66>>,
      <<240, 159, 152, 128>>,
      <<226, 65, 66>>,
      <<128, 65>>,
      <<226, 130>> }

RuneCapacities == {2, MaxRuneUnread}

RuneUnreadCounts == 0..MaxRuneUnread

\* <<>>: Bytes() has no storage behind its window; <<b>>: it holds byte b
SpareBytes == {<<>>, <<0>>}

UnreadCounts == ((0 - MaxAhead)..MaxUnread) \cup {MaxInt, MinInt}

\* what the source answers to one Read: how many bytes it is willing to give
\* and the error it would like to return with them
SrcChoices == [n : 0..MaxSpan, err : {"nil", "EOF", "ErrSrc"}]

----------------------------------------------------------------------------
(* circbuf.Buffer, by its contract *)

\* Write: append, keeping the newest `size` bytes; count every byte written
CbWindow(window, bytes) ==
    LET all == window \o bytes
    IN  IF Len(all) > size THEN Slice(all, Len(all) - size, Len(all)) ELSE all

CbTotal(written, bytes) == Wrap(written + Len(bytes))

----------------------------------------------------------------------------
(* io.Reader, by its contract: Read(p) gives 0 <= n <= len(p) bytes and an  *)
(* error; EOF can only be reported once the remaining bytes are given out   *)

SrcN(pos, L, o) == Min(o.n, Min(L, Len(src) - pos))

SrcErr(pos, L, o) ==
    IF o.err = "EOF" /\ pos + SrcN(pos, L, o) < Len(src) THEN "nil" ELSE o.err

----------------------------------------------------------------------------
(* The reader's state as a record, so that ReadRune can thread it through   *)
(* its calls of Read                                                        *)

Cur == [cursor |-> cursor, bytesRead |-> bytesRead, cbBytes |-> cbBytes,
        cbWritten |-> cbWritten, srcPos |-> srcPos]

\* Unread, line 53
NewCursor(c) == Wrap(cursor - c)

\* Unread, lines 54-59: the error Unread(c) returns ("nil": none)
UnreadErr(c) ==
    LET need == Wrap(bytesRead - NewCursor(c))
    IN  IF cbWritten < need THEN "cursor < total bytes written"
        ELSE IF size < need THEN "cursor < buffer size"
        ELSE "nil"

\* ReadFresh with line 78 adding len(p) instead of n to bytesRead
ReadFreshCountsSpan(st, L, o) ==
    LET n == SrcN(st.srcPos, L, o)
        got == Slice(src, st.srcPos, st.srcPos + n)
    IN  [cursor |-> Wrap(st.cursor + n),
         bytesRead |-> Wrap(st.bytesRead + L),
         cbBytes |-> CbWindow(st.cbBytes, got),
         cbWritten |-> CbTotal(st.cbWritten, got),
         srcPos |-> st.srcPos + n,
         n |-> n, err |-> SrcErr(st.srcPos, L, o), out |-> got, calls |-> 1,
         serr |-> SrcErr(st.srcPos, L, o)]

\* ReadFresh with line 77 writing the whole span p instead of p[:n]
ReadFreshWritesSpan(st, L, o) ==
    LET n == SrcN(st.srcPos, L, o)
        got == Slice(src, st.srcPos, st.srcPos + n)
        span == got \o [i \in 1..(L - n) |-> 0]
    IN  [cursor |-> Wrap(st.cursor + n),
         bytesRead |-> Wrap(st.bytesRead + n),
         cbBytes |-> CbWindow(st.cbBytes, span),
         cbWritten |-> CbTotal(st.cbWritten, span),
         srcPos |-> st.srcPos + n,
         n |-> n, err |-> SrcErr(st.srcPos, L, o), out |-> got, calls |-> 1,
         serr |-> SrcErr(st.srcPos, L, o)]

\* ReadFresh with line 79 (u.cursor += int64(n)) left out
ReadFreshKeepsCursor(st, L, o) ==
    LET n == SrcN(st.srcPos, L, o)
        got == Slice(src, st.srcPos, st.srcPos + n)
    IN  [cursor |-> st.cursor,
         bytesRead |-> Wrap(st.bytesRead + n),
         cbBytes |-> CbWindow(st.cbBytes, got),
         cbWritten |-> CbTotal(st.cbWritten, got),
         srcPos |-> st.srcPos + n,
         n |-> n, err |-> SrcErr(st.srcPos, L, o), out |-> got, calls |-> 1,
         serr |-> SrcErr(st.srcPos, L, o)]

\* Read, lines 75-81: cursor == bytesRead, fetch from the source
ReadFresh(st, L, o) ==
    LET n == SrcN(st.srcPos, L, o)
        got == Slice(src, st.srcPos, st.srcPos + n)
    IN  [cursor |-> Wrap(st.cursor + n),
         bytesRead |-> Wrap(st.bytesRead + n),
         cbBytes |-> CbWindow(st.cbBytes, got),
         cbWritten |-> CbTotal(st.cbWritten, got),
         srcPos |-> st.srcPos + n,
         n |-> n, err |-> SrcErr(st.srcPos, L, o), out |-> got, calls |-> 1,
         serr |-> SrcErr(st.srcPos, L, o)]

\* Read, line 84: the index the replay starts at in cb.Bytes()
\* a replay that starts at the oldest retained byte instead of line 84's index
ReplayFromWindowStart(st) == 0

ReplayStart(st) == Wrap(Len(st.cbBytes) - Wrap(st.bytesRead - st.cursor))

\* Read, lines 83-86: replay from the buffer; the slice expression panics
\* when its low bound is outside 0..len(b)
ReadReplay(st, L) ==
    LET b == st.cbBytes
        lo == ReplayStart(st)
    IN  IF lo < 0 \/ lo > Len(b)
        THEN [st EXCEPT !.cursor = st.cursor] @@
             [n |-> 0, err |-> "panic", out |-> <<>>, calls |-> 0, serr |-> "none"]
        ELSE LET n == Min(L, Len(b) - lo)
             IN  [st EXCEPT !.cursor = Wrap(st.cursor + n)] @@
                 [n |-> n, err |-> "nil", out |-> Slice(b, lo, lo + n), calls |-> 0,
                  serr |-> "none"]

\* DoRead without lines 70-72, the early return on an empty span
DoReadNoZeroCheck(st, L, o) ==
    IF st.cursor = st.bytesRead THEN ReadFresh(st, L, o)
    ELSE ReadReplay(st, L)

\* DoRead without the replay branch: every Read goes to the source
DoReadAlwaysFetches(st, L, o) ==
    IF L = 0
    THEN st @@ [n |-> 0, err |-> "nil", out |-> <<>>, calls |-> 0, serr |-> "none"]
    ELSE ReadFresh(st, L, o)

\* Read, lines 66-87
DoRead(st, L, o) ==
    IF L = 0
    THEN st @@ [n |-> 0, err |-> "nil", out |-> <<>>, calls |-> 0, serr |-> "none"]
    ELSE IF st.cursor = st.bytesRead THEN ReadFresh(st, L, o)
    ELSE ReadReplay(st, L)

\* The record of a call: its argument, its results (err "nil": no error,
\* "panic": the call panicked), the reader's counters when it was made, how
\* often it invoked the source, srcErr: the error the source returned to a
\* Read ("none": not invoked), errs: the errors ReadRune's Reads returned,
\* and `before`: the call that preceded it, kept when the pair of calls is
\* one of Follows
NoBefore == [op |-> "none", arg |-> 0, err |-> "nil", out |-> <<>>,
             preCursor |-> 0, rune |-> 0, rsize |-> 0]

NoCall == [op |-> "none", arg |-> 0, err |-> "nil", n |-> 0, out |-> <<>>,
           preCursor |-> 0, preRead |-> 0, calls |-> 0, rune |-> 0, rsize |-> 0,
           srcErr |-> "none", errs |-> <<>>, before |-> NoBefore]

Follows == { <<"Unread", "Read">>, <<"ReadRune", "Unread">>,
             <<"LastBytes", "LastBytes">> }

Before(op, arg) ==
    IF <<last.op, op>> \in Follows /\ (op = "LastBytes" => last.arg = arg)
    THEN [op |-> last.op, arg |-> last.arg, err |-> last.err, out |-> last.out,
          preCursor |-> last.preCursor, rune |-> last.rune, rsize |-> last.rsize]
    ELSE NoBefore

Call(op, arg) ==
    [NoCall EXCEPT !.op = op, !.arg = arg, !.preCursor = cursor,
                   !.preRead = bytesRead, !.before = Before(op, arg)]

----------------------------------------------------------------------------
(* unicode/utf8, as ReadRune uses it.  The lead byte p0 decides the length  *)
(* of the encoding and the range accepted for the second byte.              *)

MaxRune == 1114111
RuneError == 65533

\* first[p0] & 7: 0 for ASCII, 1 for an invalid lead byte, else the length
LeadSize(b) ==
    IF b < 128 THEN 0
    ELSE IF b < 194 THEN 1
    ELSE IF b < 224 THEN 2
    ELSE IF b < 240 THEN 3
    ELSE IF b < 245 THEN 4
    ELSE 1

\* acceptRanges[first[p0] >> 4]
AcceptLo(b) == IF b = 224 THEN 160 ELSE IF b = 240 THEN 144 ELSE 128
AcceptHi(b) == IF b = 237 THEN 159 ELSE IF b = 244 THEN 143 ELSE 191

IsCont(b) == 128 <= b /\ b <= 191

\* utf8.FullRune(p)
FullRune(p) ==
    LET n == Len(p)
    IN  IF n = 0 THEN FALSE
        ELSE IF n >= LeadSize(p[1]) THEN TRUE
        ELSE IF n > 1 /\ (p[2] < AcceptLo(p[1]) \/ AcceptHi(p[1]) < p[2]) THEN TRUE
        ELSE IF n > 2 /\ ~IsCont(p[3]) THEN TRUE
        ELSE FALSE

\* utf8.DecodeRune(p): <<rune, size>>
DecodeRune(p) ==
    LET n == Len(p)
        sz == IF n < 1 THEN 0 ELSE LeadSize(p[1])
    IN  IF n < 1 THEN <<RuneError, 0>>
        ELSE IF sz = 0 THEN <<p[1], 1>>
        ELSE IF sz = 1 THEN <<RuneError, 1>>
        ELSE IF n < sz THEN <<RuneError, 1>>
        ELSE IF p[2] < AcceptLo(p[1]) \/ AcceptHi(p[1]) < p[2] THEN <<RuneError, 1>>
        ELSE IF sz <= 2 THEN <<(p[1] % 32) * 64 + (p[2] % 64), 2>>
        ELSE IF ~IsCont(p[3]) THEN <<RuneError, 1>>
        ELSE IF sz <= 3
             THEN <<(p[1] % 16) * 4096 + (p[2] % 64) * 64 + (p[3] % 64), 3>>
        ELSE IF ~IsCont(p[4]) THEN <<RuneError, 1>>
        ELSE <<(p[1] % 8) * 262144 + (p[2] % 64) * 4096 + (p[3] % 64) * 64
                + (p[4] % 64), 4>>

\* what the source may answer to a Read of one byte
RuneChoices(rs) ==
    IF rs.cursor # rs.bytesRead THEN {[n |-> 0, err |-> "nil"]}
    ELSE { o \in [n : {0, 1}, err : {"nil", "EOF", "ErrSrc"}] :
             /\ o.n <= Len(src) - rs.srcPos
             /\ o.err = "EOF" => rs.srcPos + o.n = Len(src) }

\* ReadRune, line 94: the outcomes of u.Read(u.runeBuf[runePos : runePos+1])
ReadOne(rs) ==
    { DoRead([cursor |-> rs.cursor, bytesRead |-> rs.bytesRead,
              cbBytes |-> rs.cbBytes, cbWritten |-> rs.cbWritten,
              srcPos |-> rs.srcPos], 1, o) : o \in RuneChoices(rs) }

\* ReadRune, lines 94-98: the state after one pass of the loop body, r being
\* what Read did; the byte read lands in runeBuf[runePos]
RuneStep(rs, r) ==
    [cursor |-> r.cursor, bytesRead |-> r.bytesRead, cbBytes |-> r.cbBytes,
     cbWritten |-> r.cbWritten, srcPos |-> r.srcPos,
     runeBuf |-> IF r.n = 1 THEN [rs.runeBuf EXCEPT ![rs.runePos + 1] = r.out[1]]
                 ELSE rs.runeBuf,
     runePos |-> IF r.err = "nil" THEN rs.runePos + 1 ELSE rs.runePos,
     err |-> r.err,
     reads |-> rs.reads + 1,
     errs |-> Append(rs.errs, r.err),
     calls |-> rs.calls + r.calls,
     got |-> rs.got \o r.out]

\* ReadRune, line 93: the loop condition
RuneMore(rs) ==
    ~FullRune(Slice(rs.runeBuf, 0, rs.runePos)) /\ rs.runePos < MaxRune

\* ReadRune, lines 93-99: the states the loop can end in, from rs
RECURSIVE RuneLoop(_)
RuneLoop(rs) ==
    IF ~RuneMore(rs) THEN {rs}
    ELSE UNION { IF r.err # "nil" THEN {RuneStep(rs, r)}
                 ELSE RuneLoop(RuneStep(rs, r)) : r \in ReadOne(rs) }

\* ReadRune, line 100: the slice handed to utf8.DecodeRune
RuneDecoded(rs) == DecodeRune(Slice(rs.runeBuf, 0, rs.runePos + 1))

\* RuneResult that decodes what the scratch holds and drops a Read's error
RuneResultSwallows(rs) ==
    IF rs.err = "panic" THEN <<0, 0, "panic">>
    ELSE <<RuneDecoded(rs)[1], RuneDecoded(rs)[2], "nil">>

\* ReadRune, lines 95-97 and 100-101: what ReadRune returns, <<r, size, err>>,
\* rs being the state its loop ended in
RuneResult(rs) ==
    IF rs.err # "nil" THEN <<0, 0, rs.err>>
    ELSE <<RuneDecoded(rs)[1], RuneDecoded(rs)[2], "nil">>

\* LastBytes, lines 110-115: the bounds <<s, e>> of the slice it returns
LastRange(n) ==
    LET l == Len(cbBytes)
        offset == Wrap(bytesRead - cursor)
        rest == Wrap(Wrap(l - offset) - n)
    IN  <<IF rest > 0 THEN rest ELSE 0, Wrap(l - offset)>>

\* cb.Bytes() together with what its capacity lets a slice expression reach
CbStorage ==
    IF cbSpare = <<>> THEN cbBytes
    ELSE cbBytes \o [i \in 1..(size - Len(cbBytes)) |-> cbSpare[1]]

----------------------------------------------------------------------------
\* NewUnreader, lines 39-50 (a capacity circbuf.NewBuffer accepts)
Init ==
    /\ size \in Capacities
    /\ src \in Sources
    /\ cbSpare \in SpareBytes
    /\ cbBytes = <<>>
    /\ cbWritten = 0
    /\ srcPos = 0
    /\ bytesRead = 0
    /\ cursor = 0
    /\ runeBuf = [i \in 1..ScratchLen |-> 0]
    /\ runePos = 0
    /\ panicked = FALSE
    /\ last = NoCall
    /\ noUnread = TRUE
    /\ observed = <<>>

\* Unread, lines 52-62
Unread(c) ==
    /\ ~panicked
    /\ cursor >= 0 /\ cursor - bytesRead <= MaxAhead
    /\ cursor - bytesRead < MaxAhead \/ c >= 0
    /\ cursor' = IF UnreadErr(c) = "nil" THEN NewCursor(c) ELSE cursor
    /\ last' = [Call("Unread", c) EXCEPT !.err = UnreadErr(c)]
    /\ noUnread' = FALSE
    /\ observed' = <<>>
    /\ UNCHANGED <<size, cbBytes, cbWritten, cbSpare, src, srcPos, bytesRead,
                   runeBuf, runePos, panicked>>

\* Read, lines 66-87, on a span of length L
Read(L, o) ==
    /\ ~panicked
    /\ o.n <= Min(L, Len(src) - srcPos)
    /\ o.err = "EOF" => srcPos + o.n = Len(src)
    /\ (L = 0 \/ cursor # bytesRead) => o = [n |-> 0, err |-> "nil"]
    /\ LET r == DoRead(Cur, L, o)
       IN  /\ cursor' = r.cursor
           /\ bytesRead' = r.bytesRead
           /\ cbBytes' = r.cbBytes
           /\ cbWritten' = r.cbWritten
           /\ srcPos' = r.srcPos
           /\ panicked' = (r.err = "panic")
           /\ last' = [Call("Read", L) EXCEPT !.err = r.err, !.n = r.n,
                                              !.out = r.out, !.calls = r.calls,
                                              !.srcErr = r.serr]
           /\ observed' = IF noUnread THEN observed \o r.out ELSE <<>>
    /\ UNCHANGED <<size, cbSpare, src, runeBuf, runePos, noUnread>>

\* ReadRune, lines 91-102
ReadRune ==
    /\ ~panicked
    /\ \E rs \in RuneLoop(Cur @@ [runeBuf |-> runeBuf, runePos |-> 0, err |-> "nil",
                                  reads |-> 0, calls |-> 0, got |-> <<>>,
                                  errs |-> <<>>]) :
        /\ cursor' = rs.cursor
        /\ bytesRead' = rs.bytesRead
        /\ cbBytes' = rs.cbBytes
        /\ cbWritten' = rs.cbWritten
        /\ srcPos' = rs.srcPos
        /\ runeBuf' = rs.runeBuf
        /\ runePos' = rs.runePos
        /\ panicked' = (rs.err = "panic")
        /\ last' = [Call("ReadRune", 0) EXCEPT
                      !.err = RuneResult(rs)[3], !.n = rs.reads, !.out = rs.got,
                      !.calls = rs.calls, !.errs = rs.errs,
                      !.rune = RuneResult(rs)[1],
                      !.rsize = RuneResult(rs)[2]]
        /\ observed' = IF noUnread THEN observed \o rs.got ELSE <<>>
    /\ UNCHANGED <<size, cbSpare, src, noUnread>>

\* LastBytes that rewinds the cursor over the bytes it returns
LastBytesRewinds(n) ==
    /\ ~panicked
    /\ LET s == LastRange(n)[1]
           e == LastRange(n)[2]
           ok == 0 <= s /\ s <= e /\ e <= Len(CbStorage)
       IN  /\ panicked' = ~ok
           /\ cursor' = IF ok THEN Wrap(cursor - (e - s)) ELSE cursor
           /\ last' = [Call("LastBytes", n) EXCEPT
                         !.err = IF ok THEN "nil" ELSE "panic",
                         !.out = IF ok THEN Slice(CbStorage, s, e) ELSE <<>>,
                         !.n = IF ok THEN e - s ELSE 0]
    /\ UNCHANGED <<size, cbBytes, cbWritten, cbSpare, src, srcPos, bytesRead,
                   runeBuf, runePos, noUnread, observed>>

\* LastBytes, lines 106-117: b[s:e] panics unless 0 <= s <= e <= cap(b)
LastBytes(n) ==
    /\ ~panicked
    /\ LET s == LastRange(n)[1]
           e == LastRange(n)[2]
           ok == 0 <= s /\ s <= e /\ e <= Len(CbStorage)
       IN  /\ panicked' = ~ok
           /\ last' = [Call("LastBytes", n) EXCEPT
                         !.err = IF ok THEN "nil" ELSE "panic",
                         !.out = IF ok THEN Slice(CbStorage, s, e) ELSE <<>>,
                         !.n = IF ok THEN e - s ELSE 0]
    /\ UNCHANGED <<size, cbBytes, cbWritten, cbSpare, src, srcPos, bytesRead,
                   cursor, runeBuf, runePos, noUnread, observed>>

\* Bytes, lines 26-28
Bytes ==
    /\ ~panicked
    /\ last' = [Call("Bytes", 0) EXCEPT !.out = cbBytes, !.n = Len(cbBytes)]
    /\ UNCHANGED <<size, cbBytes, cbWritten, cbSpare, src, srcPos, bytesRead,
                   cursor, runeBuf, runePos, panicked, noUnread, observed>>

\* BytesRead, lines 30-32
BytesRead ==
    /\ ~panicked
    /\ last' = [Call("BytesRead", 0) EXCEPT !.n = bytesRead]
    /\ UNCHANGED <<size, cbBytes, cbWritten, cbSpare, src, srcPos, bytesRead,
                   cursor, runeBuf, runePos, panicked, noUnread, observed>>

\* Cursor, lines 34-36
Cursor ==
    /\ ~panicked
    /\ last' = [Call("Cursor", 0) EXCEPT !.n = cursor]
    /\ UNCHANGED <<size, cbBytes, cbWritten, cbSpare, src, srcPos, bytesRead,
                   cursor, runeBuf, runePos, panicked, noUnread, observed>>

Next ==
    \/ \E c \in UnreadCounts : Unread(c)
    \/ \E L \in 0..MaxSpan, o \in SrcChoices : Read(L, o)
    \/ ReadRune
    \/ \E n \in 0..MaxLast : LastBytes(n)
    \/ Bytes
    \/ BytesRead
    \/ Cursor

Spec == Init /\ [][Next]_vars

----------------------------------------------------------------------------
(* The reader driven as a rune reader: ReadRune and Unread only, over       *)
(* sources of encoded text                                                  *)

InitRune ==
    /\ size \in RuneCapacities
    /\ src \in RuneSources
    /\ cbSpare = <<>>
    /\ cbBytes = <<>>
    /\ cbWritten = 0
    /\ srcPos = 0
    /\ bytesRead = 0
    /\ cursor = 0
    /\ runeBuf = [i \in 1..ScratchLen |-> 0]
    /\ runePos = 0
    /\ panicked = FALSE
    /\ last = NoCall
    /\ noUnread = TRUE
    /\ observed = <<>>

NextRune ==
    \/ ReadRune
    \/ \E c \in RuneUnreadCounts : Unread(c)

SpecRune == InitRune /\ [][NextRune]_vars

----------------------------------------------------------------------------
(* Construction.  Before NewUnreader has returned a reader there is none:   *)
(* size = 0, which no reader has.                                           *)

\* the capacities NewUnreader is asked for
NewSizes == (0 - 1)..MaxCap

\* circbuf.NewBuffer(size): the error it returns ("nil": none)
NewBufferErr(sz) == IF sz <= 0 THEN "Size must be positive" ELSE "nil"

InitNew ==
    /\ size = 0
    /\ src = <<65, 66, 67>>
    /\ cbSpare = <<>>
    /\ cbBytes = <<>>
    /\ cbWritten = 0
    /\ srcPos = 0
    /\ bytesRead = 0
    /\ cursor = 0
    /\ runeBuf = [i \in 1..ScratchLen |-> 0]
    /\ runePos = 0
    /\ panicked = FALSE
    /\ last = NoCall
    /\ noUnread = TRUE
    /\ observed = <<>>

\* NewUnreader that drops the error of circbuf.NewBuffer
NewUnreaderIgnoresErr(sz) ==
    /\ size = 0
    /\ size' = sz
    /\ cbBytes' = <<>>
    /\ cbWritten' = 0
    /\ bytesRead' = 0
    /\ cursor' = 0
    /\ runeBuf' = [i \in 1..ScratchLen |-> 0]
    /\ runePos' = 0
    /\ last' = Call("NewUnreader", sz)
    /\ UNCHANGED <<cbSpare, src, srcPos, panicked, noUnread, observed>>

\* NewUnreader, lines 39-50
NewUnreader(sz) ==
    /\ size = 0
    /\ IF NewBufferErr(sz) # "nil"
       THEN /\ last' = [Call("NewUnreader", sz) EXCEPT !.err = NewBufferErr(sz)]
            /\ UNCHANGED <<size, cbBytes, cbWritten, bytesRead, cursor, runeBuf,
                           runePos>>
       ELSE /\ size' = sz
            /\ cbBytes' = <<>>
            /\ cbWritten' = 0
            /\ bytesRead' = 0
            /\ cursor' = 0
            /\ runeBuf' = [i \in 1..ScratchLen |-> 0]
            /\ runePos' = 0
            /\ last' = Call("NewUnreader", sz)
    /\ UNCHANGED <<cbSpare, src, srcPos, panicked, noUnread, observed>>

NextNew ==
    \/ \E sz \in NewSizes : NewUnreader(sz)
    \/ size > 0 /\ Next

SpecNew == InitNew /\ [][NextNew]_vars

----------------------------------------------------------------------------
(* Properties *)

\* the bytes at stream positions [lo, hi); <<-1>> when the source has not
\* produced all of them
Stream(lo, hi) ==
    IF lo = hi THEN <<>>
    ELSE IF 0 <= lo /\ lo <= hi /\ hi <= srcPos THEN Slice(src, lo, hi)
    ELSE <<-1>>

\* C1: a successful Unread(c) followed at once by a Read into a span of
\* length c: the Read returns exactly c bytes, the ones at stream positions
\* [cursor - c, cursor) of the cursor before the Unread.
C1_ReplayFidelity ==
    (/\ last.op = "Read"
     /\ last.before.op = "Unread"
     /\ last.before.err = "nil"
     /\ last.arg = last.before.arg)
    => (/\ last.n = last.arg
        /\ last.out = Stream(last.before.preCursor - last.arg,
                              last.before.preCursor))

\* C2: as long as no Unread has been called, cursor equals bytesRead after
\* every call and the bytes the Reads returned, concatenated, are exactly
\* the bytes the source has produced, in order.
C2_ReadsMirrorSource ==
    noUnread => (cursor = bytesRead /\ observed = Slice(src, 0, srcPos))

C2_Witness ==
    /\ noUnread
    /\ last.op = "Read"
    /\ srcPos = Len(src)
    /\ Len(observed) > size

\* C3: in every reachable state cursor <= fetched and the pending count
\* fetched - cursor is between 0 and the capacity and at most the total
\* written to the buffer.
C3_PendingInRange ==
    /\ cursor <= bytesRead
    /\ 0 <= bytesRead - cursor
    /\ bytesRead - cursor <= size
    /\ bytesRead - cursor <= cbWritten

\* C4: Unread(c) returns an error whenever c exceeds the capacity or the
\* total written to the buffer, and an Unread that returns an error leaves
\* cursor, bytesRead and the buffer as they were.
C4_UnreadRejects ==
    last.op = "Unread" =>
        /\ (last.arg > size \/ last.arg > cbWritten) => last.err # "nil"
        /\ last.err # "nil" =>
              (cursor = last.preCursor /\ bytesRead = last.preRead)

\* C5: Unread(c) succeeds exactly when the resulting pending count
\* fetched - (cursor - c) is at most the capacity and at most the total
\* written to the buffer.
C5_UnreadLimit ==
    last.op = "Unread" =>
        LET pending == last.preRead - (last.preCursor - last.arg)
        IN  (last.err = "nil") <=> (pending <= size /\ pending <= cbWritten)

\* C6: a Read called while cursor < fetched does not invoke the source and
\* leaves the source position, fetched, the buffer's contents and its
\* total-written count alone; the bytes it returns are bytes of the buffer.
C6_ReplayFrame ==
    [][(last'.op = "Read" /\ cursor < bytesRead) =>
          /\ last'.calls = 0
          /\ srcPos' = srcPos
          /\ bytesRead' = bytesRead
          /\ cbBytes' = cbBytes
          /\ cbWritten' = cbWritten
          /\ \E i \in 0..Len(cbBytes) :
                 last'.out = Slice(cbBytes, i, i + last'.n)]_vars

C6_Witness ==
    /\ last.op = "Read"
    /\ last.before.op = "Unread"
    /\ last.before.arg = 2
    /\ last.preRead = 3
    /\ last.preCursor = 1
    /\ last.calls = 0
    /\ last.out = <<66, 67>>
    /\ cursor = 3

\* C7: a successful ReadRune advances the cursor by exactly the size it
\* returns.
C7_RuneConsumesSize ==
    (last.op = "ReadRune" /\ last.err = "nil")
    => cursor - last.preCursor = last.rsize

\* C8: after a successful ReadRune returning (r, size), Unread(size) fails
\* only by the capacity rule; when it succeeds the cursor is back where it
\* was before the ReadRune and the next ReadRune returns r and size again.
C8_RuneRoundTrip ==
    [][(/\ last.op = "Unread"
        /\ last.before.op = "ReadRune"
        /\ last.before.err = "nil"
        /\ last.arg = last.before.rsize)
       => /\ (last.err = "nil") <=>
                 LET pending == last.preRead - (last.preCursor - last.arg)
                 IN  pending <= size /\ pending <= cbWritten
          /\ last.err = "nil" => cursor = last.before.preCursor
          /\ (last.err = "nil" /\ last'.op = "ReadRune") =>
                 /\ last'.err = "nil"
                 /\ last'.rune = last.before.rune
                 /\ last'.rsize = last.before.rsize]_vars

\* C9: LastBytes(n), n >= 0, does not fail and returns exactly
\* k = min(n, len(window) - pending) bytes, the ones at stream positions
\* [cursor - k, cursor).
C9_LastBytesLookback ==
    last.op = "LastBytes" =>
        LET k == Min(last.arg, Len(cbBytes) - (bytesRead - cursor))
        IN  /\ last.err = "nil"
            /\ last.n = k
            /\ Len(last.out) = k
            /\ last.out = Stream(cursor - k, cursor)

\* C10: LastBytes, Bytes, BytesRead and Cursor change neither cursor,
\* fetched, the buffer, its total-written count nor the source position,
\* and a LastBytes(n) right after a LastBytes(n) returns the same bytes.
C10_QueriesChangeNothing ==
    [][last'.op \in {"LastBytes", "Bytes", "BytesRead", "Cursor"} =>
          /\ cursor' = cursor
          /\ bytesRead' = bytesRead
          /\ cbBytes' = cbBytes
          /\ cbWritten' = cbWritten
          /\ srcPos' = srcPos
          /\ (last.op = "LastBytes" /\ last'.op = "LastBytes"
               /\ last'.arg = last.arg /\ last.err = "nil")
              => (last'.err = "nil" /\ last'.out = last.out)]_vars

\* C11: when a Read issued by ReadRune returns an error, it is the last
\* Read of the call and ReadRune returns that error with code point 0 and
\* size 0; ReadRune returns no error when none of its Reads did.
C11_RuneErrorPropagates ==
    (last.op = "ReadRune" /\ last.err # "panic") =>
        /\ Len(last.errs) = last.n
        /\ \A i \in 1..Len(last.errs) :
              last.errs[i] # "nil" =>
                 /\ i = Len(last.errs)
                 /\ last.err = last.errs[i]
                 /\ last.rune = 0
                 /\ last.rsize = 0
        /\ (\A i \in 1..Len(last.errs) : last.errs[i] = "nil") => last.err = "nil"

C11_Witness ==
    /\ last.op = "ReadRune"
    /\ last.err = "ErrSrc"
    /\ last.n = 2
    /\ last.out = <<226, 130>>
    /\ last.rune = 0
    /\ last.rsize = 0

C10_Witness ==
    /\ last.op = "LastBytes"
    /\ last.before.op = "LastBytes"
    /\ last.arg = 2
    /\ last.n = 1
    /\ last.out = last.before.out
    /\ cursor < bytesRead


\* C12: fetched never decreases; it grows only in a Read taken with
\* cursor = fetched (also one issued by ReadRune), by the number of bytes the
\* source produced; Unread, replay Reads, LastBytes and the accessors leave
\* it alone, and Unread changes nothing but the cursor.
C12_FetchedMonotonic ==
    [][/\ bytesRead' >= bytesRead
       /\ bytesRead' - bytesRead = srcPos' - srcPos
       /\ bytesRead' # bytesRead => last'.op \in {"Read", "ReadRune"}
       /\ (last'.op = "Read" /\ bytesRead' # bytesRead) =>
             (cursor = bytesRead /\ bytesRead' = bytesRead + last'.n)
       /\ (last'.op = "Read" /\ cursor # bytesRead) => bytesRead' = bytesRead
       /\ last'.op \in {"LastBytes", "Bytes", "BytesRead", "Cursor"} =>
             bytesRead' = bytesRead
       /\ last'.op = "Unread" =>
             /\ bytesRead' = bytesRead
             /\ cbBytes' = cbBytes
             /\ cbWritten' = cbWritten
             /\ srcPos' = srcPos
             /\ runeBuf' = runeBuf]_vars

C12_Witness ==
    /\ last.op = "Read"
    /\ last.calls = 1
    /\ last.arg = 2
    /\ last.n = 1
    /\ last.preRead = 1
    /\ bytesRead = 2


\* C13: NewUnreader with a capacity that is not positive returns an error
\* and no reader; with a positive capacity it returns a reader with
\* fetched = 0, cursor = 0 and an empty buffer of that capacity, and the
\* capacity of a reader never changes afterwards.
C13_Construction ==
    [][/\ last'.op = "NewUnreader" =>
             IF last'.arg <= 0
             THEN last'.err # "nil" /\ size' = 0
             ELSE /\ last'.err = "nil"
                  /\ size' = last'.arg
                  /\ bytesRead' = 0
                  /\ cursor' = 0
                  /\ cbBytes' = <<>>
                  /\ cbWritten' = 0
       /\ size > 0 => size' = size]_vars

C13_Witness ==
    /\ last.op = "NewUnreader"
    /\ last.arg < 0
    /\ last.err # "nil"
    /\ size = 0


\* C14: a Read into a span of length L > 0, called while cursor # fetched,
\* does not fault, returns exactly min(L, pending) bytes and no error,
\* advances the cursor by that count and does not invoke the source.
C14_ReplayNeverFaults ==
    (last.op = "Read" /\ last.arg > 0 /\ last.preCursor # last.preRead) =>
        /\ last.err = "nil"
        /\ last.n = Min(last.arg, last.preRead - last.preCursor)
        /\ Len(last.out) = last.n
        /\ cursor = last.preCursor + last.n
        /\ last.calls = 0

\* C15: a Read into a span of length L > 0, called while cursor = fetched,
\* invokes the source once, appends exactly the n bytes it produced to the
\* buffer, advances fetched and cursor by n and returns the source's n and
\* error.
C15_FreshFetch ==
    [][(last'.op = "Read" /\ last'.arg > 0 /\ cursor = bytesRead) =>
          LET n == last'.n
              got == Slice(src, srcPos, srcPos')
          IN  /\ last'.calls = 1
              /\ n <= last'.arg
              /\ srcPos' = srcPos + n
              /\ last'.out = got
              /\ last'.err = last'.srcErr
              /\ cbBytes' = CbWindow(cbBytes, got)
              /\ cbWritten' = cbWritten + n
              /\ bytesRead' = bytesRead + n
              /\ cursor' = cursor + n]_vars

C15_Witness ==
    /\ last.op = "Read"
    /\ last.calls = 1
    /\ last.arg = 2
    /\ last.n = 1
    /\ last.err = "ErrSrc"
    /\ cursor = last.preCursor + 1

\* C16: a Read into an empty span returns (0, nil), does not invoke the
\* source and changes neither cursor, fetched nor the buffer.
C16_EmptySpan ==
    [][(last'.op = "Read" /\ last'.arg = 0) =>
          /\ last'.n = 0
          /\ last'.err = "nil"
          /\ last'.out = <<>>
          /\ last'.calls = 0
          /\ UNCHANGED <<cursor, bytesRead, cbBytes, cbWritten, srcPos,
                         panicked>>]_vars

C16_Witness ==
    /\ last.op = "Read"
    /\ last.arg = 0
    /\ last.preRead = 3
    /\ last.preCursor = 2
    /\ srcPos = Len(src)
    /\ cursor = last.preCursor


\* C17: a ReadRune call issues at most 4 Reads, and it reads no byte once
\* the bytes it has accumulated in this call are a complete encoding or
\* known to be invalid.
C17_RuneReadsBounded ==
    (last.op = "ReadRune" /\ last.err # "panic") =>
        /\ last.n <= 4
        /\ \A k \in 0..(Len(last.out) - 1) : ~FullRune(Slice(last.out, 0, k))

\* C18: what a successful ReadRune returns is the decoding of exactly the
\* bytes its Reads delivered in this call, whatever earlier calls left in
\* the scratch buffer.
C18_RuneFromOwnBytes ==
    (last.op = "ReadRune" /\ last.err = "nil") =>
        <<last.rune, last.rsize>> = DecodeRune(last.out)

\* C19: whatever calls came before, the bytes a Read or a ReadRune delivers
\* from cursor position i onward are the source's bytes at positions i,
\* i+1, ... (so a position read again after a rewind gives the same byte),
\* and the buffer's window is the last min(capacity, fetched) bytes the
\* source produced, oldest first.
C19_StreamFidelity ==
    /\ (last.op \in {"Read", "ReadRune"} /\ last.err # "panic") =>
           last.out = Stream(last.preCursor, last.preCursor + Len(last.out))
    /\ bytesRead = srcPos
    /\ cbBytes = Slice(src, srcPos - Min(size, bytesRead), srcPos)

C19_Witness ==
    /\ last.op = "Read"
    /\ last.before.op = "Unread"
    /\ last.before.err = "nil"
    /\ last.preRead = 3
    /\ size = 2
    /\ last.preCursor = 2
    /\ last.out = <<67>>

\* C20: the buffer's total-written count equals bytesRead and the cursor is
\* never negative.
C20_WrittenIsFetched ==
    /\ cbWritten = bytesRead
    /\ cursor >= 0

====
